---- MODULE Spec2Model ----
(***************************************************************************)
(* The output area widget of src/outputarea/widget.ts: an OutputArea that  *)
(* listens to an observable output-list model and keeps one child panel    *)
(* per output, plus the stdin panels the kernel asks for while a request   *)
(* runs.  Indices are 0-based as in the source; the k-th element of a      *)
(* sequence ws is ws[k + 1].                                               *)
(***************************************************************************)
EXTENDS Integers, Sequences, FiniteSets, TLC

\* ------------------------------------------------------------------ bounds
MaxWidgets == 4
MaxRequests == 2
MaxAreas == 2
FewWidgets == 2
OneRequest == 1
MaxDrags == 2
MaxInput == 2

\* --------------------------------------------------------------- constants
OUTPUT_AREA_CLASS == "jp-OutputArea"
MIRRORED_OUTPUT_AREA_CLASS == "jp-MirroredOutputArea"
CHILD_CLASS == "jp-OutputArea-child"
GUTTER_CLASS == "jp-Output-gutter"
OUTPUT_CLASS == "jp-OutputArea-output"
STDIN_CLASS == "jp-OutputArea-stdin"
EXECUTE_CLASS == "jp-Output-executeResult"
DISPLAY_CLASS == "jp-Output-displayData"
STDOUT_CLASS == "jp-Output-stdout"
STDERR_CLASS == "jp-Output-stderr"
ERROR_CLASS == "jp-Output-error"
FIXED_HEIGHT_CLASS == "jp-mod-fixedHeight"
COLLAPSED_CLASS == "jp-mod-collapsed"

VARIABLES
  model,       \* the shared output-list model: [list, clearNext]
  areas,       \* the output areas listening to the model, areas[1] the original
  requests,    \* the kernel's futures, one per execute() call
  promises,    \* the promise execute() returned for each request
  lastOp,      \* the handler the event loop ran last
  lastMsg,     \* the message (or the area and argument) that handler was given
  calls,       \* the calls that handler made, in order
  gutter,      \* a Gutter widget: its drag fields and its DOM listeners
  pointer,     \* the mouse: the buttons held and where the left press began
  stdin,       \* a Stdin widget: its input element, listener and replies
  made         \* the widget ContentFactory.createOutput returned last

areaVars == <<model, areas, requests, promises>>
widgetVars == <<gutter, pointer, stdin, made>>
vars == <<model, areas, requests, promises, lastOp, lastMsg, calls,
          gutter, pointer, stdin, made>>

\* ------------------------------------------------------------ plain values
NullCount == -1

\* The value an absent field of a message or output takes.
None == ""

\* MIME data a renderer of the registry handles, and data none handles.
RenderableData == {"text/plain", "text/html"}
UnknownData == "application/x-unknown"

\* nbformat.IOutput, as far as the widget reads it.
\* metadata is the set of the keys of the metadata object.
Output(type, name, count, data, metadata) ==
  [output_type |-> type, name |-> name, execution_count |-> count, data |-> data,
   metadata |-> metadata]

NoOutput == Output(None, None, NullCount, None, {})

\* ------------------------------------------------- the rendering registry
\* rendermime.render(model): a widget when a renderer handles the bundle,
\* null otherwise.
render(o) == o.data \in RenderableData

\* The decimal text of an execution count, as a template literal prints it.
CountText(count) ==
  CASE count = 0 -> "0"
    [] count = 1 -> "1"
    [] count = 2 -> "2"
    [] OTHER -> "n"

OutPrompt(count) ==
  <<"Out[", IF count = NullCount THEN " " ELSE CountText(count), "]:">>

\* The text of a gutter nobody has set: the textContent of an empty node.
NoText == <<>>

\* --------------------------------------------------------- content factory
\* createOutput without the test of the widget render returned.
createOutputUnchecked(o) ==
  CASE o.output_type = "execute_result" ->
         [rendered |-> render(o), classes |-> {EXECUTE_CLASS},
          gutterText |-> OutPrompt(o.execution_count)]
    [] o.output_type = "display_data" ->
         [rendered |-> render(o), classes |-> {DISPLAY_CLASS}, gutterText |-> NoText]
    [] OTHER ->
         [rendered |-> render(o), classes |-> {}, gutterText |-> NoText]

\* createOutput giving the stderr class to the stream named stderr only.
createOutputByName(o) ==
  IF ~render(o)
  THEN [rendered |-> FALSE, classes |-> {}, gutterText |-> NoText]
  ELSE CASE o.output_type = "execute_result" ->
              [rendered |-> TRUE, classes |-> {EXECUTE_CLASS},
               gutterText |-> OutPrompt(o.execution_count)]
         [] o.output_type = "display_data" ->
              [rendered |-> TRUE, classes |-> {DISPLAY_CLASS}, gutterText |-> NoText]
         [] o.output_type = "stream" ->
              [rendered |-> TRUE,
               classes |-> IF o.name = "stdout" THEN {STDOUT_CLASS}
                           ELSE IF o.name = "stderr" THEN {STDERR_CLASS} ELSE {},
               gutterText |-> NoText]
         [] o.output_type = "error" ->
              [rendered |-> TRUE, classes |-> {ERROR_CLASS}, gutterText |-> NoText]
         [] OTHER ->
              [rendered |-> TRUE, classes |-> {}, gutterText |-> NoText]

\* ContentFactory.createOutput: the widget it returns (rendered or the empty
\* placeholder, with the classes createOutput itself adds) and the text it
\* leaves in options.gutter.
createOutput(o) ==
  IF ~render(o)
  THEN [rendered |-> FALSE, classes |-> {}, gutterText |-> NoText]
  ELSE CASE o.output_type = "execute_result" ->
              [rendered |-> TRUE, classes |-> {EXECUTE_CLASS},
               gutterText |-> OutPrompt(o.execution_count)]
         [] o.output_type = "display_data" ->
              [rendered |-> TRUE, classes |-> {DISPLAY_CLASS}, gutterText |-> NoText]
         [] o.output_type = "stream" ->
              [rendered |-> TRUE,
               classes |-> IF o.name = "stdout" THEN {STDOUT_CLASS} ELSE {STDERR_CLASS},
               gutterText |-> NoText]
         [] o.output_type = "error" ->
              [rendered |-> TRUE, classes |-> {ERROR_CLASS}, gutterText |-> NoText]
         [] OTHER ->
              [rendered |-> TRUE, classes |-> {}, gutterText |-> NoText]

\* A child panel of the output area.  classes: the panel's own classes;
\* gutterChild: whether the gutter made for the panel was added to it;
\* gutterText: that gutter's text; rendered/contentClasses: the content
\* widget; output: the model output the content renders (NoOutput for
\* stdin); prompt/password: the stdin widget's options.
Panel(classes, gutterChild, gutterText, rendered, contentClasses, output, prompt, password) ==
  [classes |-> classes, gutterChild |-> gutterChild, gutterText |-> gutterText,
   rendered |-> rendered, contentClasses |-> contentClasses, output |-> output,
   prompt |-> prompt, password |-> password]

hasClass(w, c) == c \in w.classes

\* PanelLayout.insertWidget(index, widget): the index is clamped to the
\* bounds of the widgets.
insertWidget(ws, index, w) ==
  LET i == IF index < 0 THEN 0 ELSE IF index > Len(ws) THEN Len(ws) ELSE index
  IN  SubSeq(ws, 1, i) \o <<w>> \o SubSeq(ws, i + 1, Len(ws))

\* Widget.dispose() of the child at index: the child leaves the layout.
disposeAt(ws, index) ==
  SubSeq(ws, 1, index) \o SubSeq(ws, index + 2, Len(ws))

\* The panel _insertOutput builds for a model output.
OutputPanel(o) ==
  LET result == createOutput(o)
  IN  Panel({CHILD_CLASS, OUTPUT_CLASS}, FALSE, result.gutterText,
            result.rendered, result.classes \cup {OUTPUT_CLASS}, o, None, FALSE)

\* The panel _onInputRequest builds for an input request.
StdinPanel(prompt, password) ==
  Panel({CHILD_CLASS, STDIN_CLASS}, TRUE, NoText, TRUE, {STDIN_CLASS},
        NoOutput, prompt, password)

\* OutputArea._insertOutput
_insertOutput(ws, index, o) == insertWidget(ws, index, OutputPanel(o))

\* ------------------------------------------------------------- output area
\* The fields of an OutputArea: its layout's widgets, _collapsed,
\* _fixedHeight, the class names on its node, whether an update-request is
\* posted and not yet delivered, node.style.minHeight, _minHeightTimeout
\* (set or null), the number of min-height timers waiting to fire,
\* isDisposed, and whether one of its handlers threw a TypeError because it
\* addressed a child that does not exist.
Area(classes) ==
  [widgets |-> <<>>, collapsed |-> FALSE, fixedHeight |-> FALSE,
   classes |-> classes, updatePending |-> FALSE,
   minHeight |-> None, minHeightTimeout |-> FALSE, timers |-> 0,
   isDisposed |-> FALSE, threw |-> FALSE]

\* The loop of clear(): widgets.length is read again on every turn while i
\* counts the turns, and each turn disposes the first child.
RECURSIVE clearLoop(_, _)
clearLoop(ws, i) ==
  IF i < Len(ws) THEN clearLoop(disposeAt(ws, 0), i + 1) ELSE ws

\* clear() that never cancels the timer it set before.
clearTimeoutNever(timers) == timers

\* clearTimeout(handle): the timer the handle names, the last one set, no
\* longer fires if it was still waiting.
clearTimeout(timers) == IF timers > 0 THEN timers - 1 ELSE timers

\* OutputArea.clear
clear(a) ==
  IF Len(a.widgets) = 0
  THEN a
  ELSE [a EXCEPT !.widgets = clearLoop(a.widgets, 0),
                 !.minHeight = "px",
                 !.timers = (IF a.minHeightTimeout THEN clearTimeout(a.timers)
                                                   ELSE a.timers) + 1,
                 !.minHeightTimeout = TRUE]

\* The loop of _setOutput that skips stdin widgets: index grows while i runs
\* up to it.  A turn that addresses a child past the end throws; the result
\* is then Len(ws), the index of no child.
RECURSIVE skipStdin(_, _, _)
skipStdin(ws, i, index) ==
  IF i < index
  THEN IF i >= Len(ws)
       THEN Len(ws)
       ELSE IF hasClass(ws[i + 1], STDIN_CLASS)
            THEN skipStdin(ws, i + 1, index + 1)
            ELSE skipStdin(ws, i + 1, index)
  ELSE index

\* OutputArea._setOutput
_setOutput(a, index, o) ==
  LET target == skipStdin(a.widgets, 0, index)
  IN  IF target >= Len(a.widgets)
      THEN [a EXCEPT !.threw = TRUE]
      ELSE [a EXCEPT !.widgets = _insertOutput(disposeAt(a.widgets, target), target, o)]

\* The arguments of a change of the output list.
ChangedArgs(type, newIndex, newValue) ==
  [type |-> type, newIndex |-> newIndex, newValue |-> newValue]

\* _onModelChanged inserting an added output at its index in the model.
_onModelChangedAtIndex(a, args) ==
  CASE args.type = "add" ->
         [a EXCEPT !.widgets = _insertOutput(a.widgets, args.newIndex, args.newValue)]
    [] args.type = "remove" -> clear(a)
    [] args.type = "set" -> _setOutput(a, args.newIndex, args.newValue)
    [] OTHER -> a

\* OutputArea._onModelChanged
_onModelChanged(a, args) ==
  CASE args.type = "add" ->
         [a EXCEPT !.widgets = _insertOutput(a.widgets, Len(a.widgets), args.newValue)]
    [] args.type = "remove" -> clear(a)
    [] args.type = "set" -> _setOutput(a, args.newIndex, args.newValue)
    [] OTHER -> a

\* _onInputRequest putting the panel in front of the children.
_onInputRequestFirst(a, msg) ==
  [a EXCEPT !.widgets = <<StdinPanel(msg.prompt, msg.password)>> \o a.widgets]

\* OutputArea._onInputRequest
_onInputRequest(a, msg) ==
  [a EXCEPT !.widgets = Append(a.widgets, StdinPanel(msg.prompt, msg.password))]

\* --------------------------------------------------- the output-list model
\* The model and the areas connected to its changed signal: w is
\* [model |-> [list, clearNext], areas |-> the areas].
World(m, as) == [model |-> m, areas |-> as]

\* changed.emit(args): every connected area handles the change.
emit(w, args) ==
  [w EXCEPT !.areas = [i \in DOMAIN w.areas |->
                         IF w.areas[i].isDisposed THEN w.areas[i]
                         ELSE _onModelChanged(w.areas[i], args)]]

\* model.clear(wait): with wait the clearing is put off to the next add.
modelClear(w, wait) ==
  IF wait
  THEN [w EXCEPT !.model.clearNext = TRUE]
  ELSE emit([w EXCEPT !.model.list = <<>>], ChangedArgs("remove", 0, NoOutput))

\* model.add(output): a stream output of the same name as the last output
\* is folded into it (a 'set' of the last index), anything else is pushed.
modelAdd(w, output) ==
  LET w1 == IF w.model.clearNext
            THEN [modelClear(w, FALSE) EXCEPT !.model.clearNext = FALSE]
            ELSE w
      list == w1.model.list
      n == Len(list)
  IN  IF /\ output.output_type = "stream"
         /\ n > 0
         /\ list[n].output_type = "stream"
         /\ list[n].name = output.name
      THEN emit([w1 EXCEPT !.model.list[n] = output], ChangedArgs("set", n - 1, output))
      ELSE emit([w1 EXCEPT !.model.list = Append(list, output)],
                ChangedArgs("add", n, output))

\* A call a handler makes, as the log of the handler keeps it: op names the
\* callee; output and wait are the arguments of model.add and model.clear;
\* request, nOutputs and nChildren are the request of kernel.requestExecute
\* or of resolve, with the outputs of the model and the children of the
\* area at the moment of the call.
Call(op, output, wait, request, nOutputs, nChildren) ==
  [op |-> op, output |-> output, wait |-> wait, request |-> request,
   nOutputs |-> nOutputs, nChildren |-> nChildren]

AddCall(output) == Call("model.add", output, FALSE, 0, 0, 0)
ClearCall(wait) == Call("model.clear", NoOutput, wait, 0, 0, 0)
RequestCall(r, nOutputs, nChildren) ==
  Call("kernel.requestExecute", NoOutput, FALSE, r, nOutputs, nChildren)
ResolveCall(r) == Call("resolve", NoOutput, FALSE, r, 0, 0)
UpdateCall == Call("update", NoOutput, FALSE, 0, 0, 0)

\* ------------------------------------------------------- kernel messages
\* An iopub message: header.msg_type, content (the output fields the kernel
\* sends, which carry no output_type) and, for clear_output, content.wait.
IOPubMsg(type, content, wait) == [msg_type |-> type, content |-> content, wait |-> wait]

\* An execute reply: the request it answers and content.payload (hasPayload
\* is FALSE when the content carries none).
ReplyMsg(parent, hasPayload, payload) ==
  [msg_type |-> "execute_reply", parent |-> parent, hasPayload |-> hasPayload,
   payload |-> payload]

PayloadEntry(source, data) == [source |-> source, data |-> data]

\* A message on the stdin channel.
StdinMsg(type, prompt, password) ==
  [msg_type |-> type, prompt |-> prompt, password |-> password]

\* KernelMessage.isInputRequestMsg
isInputRequestMsg(msg) == msg.msg_type = "input_request"

\* _onIOPub handing the content to the model as the kernel sent it.
_onIOPubKeepsType(w, msg) ==
  CASE msg.msg_type \in {"execute_result", "display_data", "stream", "error"} ->
         [w |-> modelAdd(w, msg.content), calls |-> <<AddCall(msg.content)>>]
    [] msg.msg_type = "clear_output" ->
         [w |-> modelClear(w, msg.wait), calls |-> <<ClearCall(msg.wait)>>]
    [] OTHER -> [w |-> w, calls |-> <<>>]

\* OutputArea._onIOPub: the world after the handler and its calls on the model.
_onIOPub(w, msg) ==
  CASE msg.msg_type \in {"execute_result", "display_data", "stream", "error"} ->
         LET output == [msg.content EXCEPT !.output_type = msg.msg_type]
         IN  [w |-> modelAdd(w, output), calls |-> <<AddCall(output)>>]
    [] msg.msg_type = "clear_output" ->
         [w |-> modelClear(w, msg.wait), calls |-> <<ClearCall(msg.wait)>>]
    [] OTHER -> [w |-> w, calls |-> <<>>]

isPage(i) == i.source = "page"

\* _onExecuteReply taking the last page entry of the payload.
_onExecuteReplyLastPage(w, msg) ==
  IF ~msg.hasPayload \/ Len(msg.payload) = 0
  THEN [w |-> w, calls |-> <<>>]
  ELSE LET pages == SelectSeq(msg.payload, isPage)
       IN  IF Len(pages) = 0
           THEN [w |-> w, calls |-> <<>>]
           ELSE LET page == pages[Len(pages)]
                    output == Output("display_data", None, NullCount, page.data, {})
                IN  [w |-> modelAdd(w, output), calls |-> <<AddCall(output)>>]

\* OutputArea._onExecuteReply
_onExecuteReply(w, msg) ==
  IF ~msg.hasPayload \/ Len(msg.payload) = 0
  THEN [w |-> w, calls |-> <<>>]
  ELSE LET pages == SelectSeq(msg.payload, isPage)
       IN  IF Len(pages) = 0
           THEN [w |-> w, calls |-> <<>>]
           ELSE LET page == pages[1]
                    output == Output("display_data", None, NullCount, page.data, {})
                IN  [w |-> modelAdd(w, output), calls |-> <<AddCall(output)>>]

\* The state of the promise execute() returns.
Pending == [state |-> "pending", value |-> ReplyMsg(0, FALSE, <<>>)]
Resolved(msg) == [state |-> "resolved", value |-> msg]

\* The future of kernel.requestExecute(content) made by area a.
Future(a, content) ==
  [area |-> a, content |-> content, replied |-> FALSE, idle |-> FALSE]

OutputTypes == {"execute_result", "display_data", "stream", "error"}

\* --------------------------------------------------------------- the gutter
DRAG_THRESHOLD == 5

\* A Gutter as constructed: _drag and _dragData are null (drag, hasData
\* FALSE), no DOM listener is installed.  attached: the mousedown listener
\* of onAfterAttach is on the node; listening: the mouseup and mousemove
\* listeners are on the document; running: the Drag objects the gutter
\* started whose promise has not resolved; started: the Drag objects it
\* started in all; threw: a handler ended in a TypeError.
NewGutter ==
  [attached |-> FALSE, drag |-> FALSE, hasData |-> FALSE, pressX |-> 0, pressY |-> 0,
   listening |-> FALSE, running |-> 0, started |-> 0, isDisposed |-> FALSE,
   threw |-> FALSE]

\* The mouse before any button is pressed.  onGutter: the left button is
\* held and its mousedown reached the gutter, at (x, y).
NoPress == [buttons |-> {}, onGutter |-> FALSE, x |-> 0, y |-> 0]

\* A DOM MouseEvent; target tells whether the pointer is over the gutter.
MouseEvent(type, button, x, y, target) ==
  [type |-> type, button |-> button, clientX |-> x, clientY |-> y, target |-> target]

\* Math.abs
abs(n) == IF n < 0 THEN 0 - n ELSE n

\* Gutter._evtMousedown
_evtMousedown(g, event) ==
  IF event.button = 0
  THEN [g EXCEPT !.hasData = TRUE, !.pressX = event.clientX, !.pressY = event.clientY,
                 !.listening = TRUE]
  ELSE g

\* _evtMouseup leaving the document listeners installed.
_evtMouseupKeepsListeners(g, event) == g

\* Gutter._evtMouseup
_evtMouseup(g, event) ==
  IF event.button # 0 \/ ~g.drag
  THEN [g EXCEPT !.listening = FALSE]
  ELSE g

\* Gutter._startDrag: a new Drag is started and the document listeners are
\* removed.
_startDrag(g) ==
  [g EXCEPT !.drag = TRUE, !.listening = FALSE, !.running = @ + 1, !.started = @ + 1]

\* Gutter._evtMousemove
_evtMousemove(g, event) ==
  IF g.drag THEN g
  ELSE IF ~g.hasData THEN [g EXCEPT !.threw = TRUE]
  ELSE LET dx == abs(event.clientX - g.pressX)
           dy == abs(event.clientY - g.pressY)
       IN  IF dx < DRAG_THRESHOLD /\ dy < DRAG_THRESHOLD THEN g ELSE _startDrag(g)

\* The callback of the promise drag.start() returned, leaving _drag set.
dragResolvedKeepsDrag(g) == [g EXCEPT !.running = 0]

\* The callback of the promise drag.start() returned: _drag is null again.
dragResolved(g) == [g EXCEPT !.drag = FALSE, !.running = 0]

\* ----------------------------------------------------------- the stdin widget
ENTER == 13

\* No Stdin widget.  created: the constructor ran; value: the text in the
\* input element; inputInNode: the input element is a child of the node;
\* rendered: the text of the span that replaced it; listening: the keydown
\* listener is on the input; replies: the values handed to
\* kernel.sendInputReply; threw: a handler ended in a DOM exception.
NoStdin ==
  [created |-> FALSE, prompt |-> None, password |-> FALSE, value |-> <<>>,
   inputInNode |-> FALSE, hasRendered |-> FALSE, rendered |-> <<>>,
   attached |-> FALSE, listening |-> FALSE, updatePending |-> FALSE,
   focused |-> FALSE, replies |-> <<>>, threw |-> FALSE]

\* new Stdin(options)
Stdin(options) ==
  [NoStdin EXCEPT !.created = TRUE, !.prompt = options.prompt,
                  !.password = options.password, !.inputInNode = TRUE]

\* A DOM KeyboardEvent
KeyEvent(key) ==
  [type |-> "keydown", key |-> key, keyCode |-> IF key = "Enter" THEN ENTER ELSE 65]

\* Array(n).join(sep): n empty slots joined, that is n - 1 separators.
RECURSIVE join(_, _)
join(n, sep) == IF n <= 1 THEN <<>> ELSE <<sep>> \o join(n - 1, sep)

\* Stdin.handleEvent with the mask one character short.
handleEventShortMask(s, event) ==
  IF event.type = "keydown" /\ event.keyCode = ENTER
  THEN LET text == IF s.password THEN join(Len(s.value), "*") ELSE s.value
       IN  IF s.inputInNode
           THEN [s EXCEPT !.replies = Append(@, s.value), !.inputInNode = FALSE,
                          !.hasRendered = TRUE, !.rendered = text, !.focused = FALSE]
           ELSE [s EXCEPT !.replies = Append(@, s.value), !.threw = TRUE]
  ELSE s

\* Stdin.handleEvent that appends the rendered span and keeps the input.
handleEventKeepsInput(s, event) ==
  IF event.type = "keydown" /\ event.keyCode = ENTER
  THEN LET text == IF s.password THEN join(Len(s.value) + 1, "*") ELSE s.value
       IN  [s EXCEPT !.replies = Append(@, s.value), !.hasRendered = TRUE,
                     !.rendered = text]
  ELSE s

\* Stdin.handleEvent: Enter sends the reply and replaces the input by the
\* rendered span; node.replaceChild throws when the input is no child.
\* The mask character of the source is written "*" here.
handleEvent(s, event) ==
  IF event.type = "keydown" /\ event.keyCode = ENTER
  THEN LET text == IF s.password THEN join(Len(s.value) + 1, "*") ELSE s.value
       IN  IF s.inputInNode
           THEN [s EXCEPT !.replies = Append(@, s.value), !.inputInNode = FALSE,
                          !.hasRendered = TRUE, !.rendered = text, !.focused = FALSE]
           ELSE [s EXCEPT !.replies = Append(@, s.value), !.threw = TRUE]
  ELSE s

\* --------------------------------------------------- the factory's last widget
\* No widget made yet.
NoWidget ==
  [output |-> NoOutput, rendered |-> FALSE, classes |-> {}, gutterText |-> NoText]

\* ------------------------------------------------------------------ actions
Init ==
  /\ model = [list |-> <<>>, clearNext |-> FALSE]
  /\ areas = <<Area({OUTPUT_AREA_CLASS})>>
  /\ requests = <<>>
  /\ promises = <<>>
  /\ lastOp = "new"
  /\ lastMsg = None
  /\ calls = <<>>
  /\ gutter = NewGutter
  /\ pointer = NoPress
  /\ stdin = NoStdin
  /\ made = NoWidget

\* OutputArea.execute(code, kernel) on area a.
Execute(a, code) ==
  /\ LET content == [code |-> code, stop_on_error |-> TRUE]
         w1 == modelClear(World(model, areas), FALSE)
         w2 == [w1 EXCEPT !.areas[a] = clear(w1.areas[a])]
         r == Len(requests) + 1
     IN  /\ model' = w2.model
         /\ areas' = w2.areas
         /\ requests' = Append(requests, Future(a, content))
         /\ calls' = <<ClearCall(FALSE),
                       RequestCall(r, Len(w2.model.list), Len(w2.areas[a].widgets))>>
  /\ promises' = Append(promises, Pending)
  /\ lastOp' = "execute"
  /\ UNCHANGED widgetVars
  /\ lastMsg' = <<a, code>>

\* future.onIOPub of request r: the kernel publishes msg while the request
\* is not idle; the status message is the one that ends it.
OnIOPub(r, msg) ==
  /\ ~requests[r].idle
  /\ LET h == _onIOPub(World(model, areas), msg)
     IN  /\ model' = h.w.model
         /\ areas' = h.w.areas
         /\ calls' = h.calls
  /\ requests' = [requests EXCEPT ![r].idle = (msg.msg_type = "status")]
  /\ lastOp' = "iopub"
  /\ UNCHANGED widgetVars
  /\ lastMsg' = msg
  /\ UNCHANGED promises

\* onReply resolving the promise of the request made last.
OnReplyResolvesLatest(r, msg) ==
  /\ ~requests[r].replied
  /\ msg.parent = r
  /\ LET h == _onExecuteReply(World(model, areas), msg)
     IN  /\ model' = h.w.model
         /\ areas' = h.w.areas
         /\ calls' = h.calls \o <<ResolveCall(r)>>
  /\ promises' = [promises EXCEPT ![Len(promises)] = Resolved(msg)]
  /\ requests' = [requests EXCEPT ![r].replied = TRUE]
  /\ lastOp' = "reply"
  /\ UNCHANGED widgetVars
  /\ lastMsg' = msg

\* future.onReply of request r: the kernel answers the request, once; the
\* handler runs _onExecuteReply and then resolves the promise of r.
OnReply(r, msg) ==
  /\ ~requests[r].replied
  /\ msg.parent = r
  /\ LET h == _onExecuteReply(World(model, areas), msg)
     IN  /\ model' = h.w.model
         /\ areas' = h.w.areas
         /\ calls' = h.calls \o <<ResolveCall(r)>>
  /\ promises' = [promises EXCEPT ![r] = Resolved(msg)]
  /\ requests' = [requests EXCEPT ![r].replied = TRUE]
  /\ lastOp' = "reply"
  /\ UNCHANGED widgetVars
  /\ lastMsg' = msg

\* future.onStdin of request r: the kernel sends a stdin message while the
\* request runs.
OnStdin(r, msg) ==
  /\ ~requests[r].replied
  /\ ~requests[r].idle
  /\ areas' = IF isInputRequestMsg(msg)
              THEN [areas EXCEPT ![requests[r].area] = _onInputRequest(@, msg)]
              ELSE areas
  /\ lastOp' = "stdin"
  /\ UNCHANGED widgetVars
  /\ lastMsg' = msg
  /\ calls' = <<>>
  /\ UNCHANGED <<model, requests, promises>>

\* The callback of the min-height timer of area a.
MinHeightTimeout(a) ==
  /\ areas[a].timers > 0
  /\ areas' = [areas EXCEPT ![a].timers = @ - 1,
                            ![a].minHeight = IF areas[a].isDisposed THEN @ ELSE None]
  /\ lastOp' = "timeout"
  /\ UNCHANGED widgetVars
  /\ lastMsg' = None
  /\ calls' = <<>>
  /\ UNCHANGED <<model, requests, promises>>

\* OutputArea.dispose() of area a: Widget.dispose marks the widget, disposes
\* the layout with its children and drops the signal connections and the
\* posted messages; the min-height timer is left running.
Dispose(a) ==
  /\ ~areas[a].isDisposed
  /\ areas' = [areas EXCEPT ![a].isDisposed = TRUE, ![a].widgets = <<>>,
                            ![a].updatePending = FALSE]
  /\ lastOp' = "dispose"
  /\ UNCHANGED widgetVars
  /\ lastMsg' = a
  /\ calls' = <<>>
  /\ UNCHANGED <<model, requests, promises>>

\* OutputArea.mirror() of area a: a new area over the same model.
Mirror(a) ==
  /\ areas' = Append(areas, Area({OUTPUT_AREA_CLASS, MIRRORED_OUTPUT_AREA_CLASS}))
  /\ lastOp' = "mirror"
  /\ UNCHANGED widgetVars
  /\ lastMsg' = a
  /\ calls' = <<>>
  /\ UNCHANGED <<model, requests, promises>>

\* Widget.toggleClass(name, force)
toggleClass(classes, name, force) ==
  IF force THEN classes \cup {name} ELSE classes \ {name}

\* The setter of OutputArea.collapsed on area a.
SetCollapsed(a, value) ==
  /\ IF areas[a].collapsed = value
     THEN /\ areas' = areas
          /\ calls' = <<>>
     ELSE /\ areas' = [areas EXCEPT ![a].collapsed = value, ![a].updatePending = TRUE]
          /\ calls' = <<UpdateCall>>
  /\ lastOp' = "collapsed"
  /\ UNCHANGED widgetVars
  /\ lastMsg' = <<a, value>>
  /\ UNCHANGED <<model, requests, promises>>

\* The setter of OutputArea.fixedHeight on area a.
SetFixedHeight(a, value) ==
  /\ IF areas[a].fixedHeight = value
     THEN /\ areas' = areas
          /\ calls' = <<>>
     ELSE /\ areas' = [areas EXCEPT ![a].fixedHeight = value, ![a].updatePending = TRUE]
          /\ calls' = <<UpdateCall>>
  /\ lastOp' = "fixedHeight"
  /\ UNCHANGED widgetVars
  /\ lastMsg' = <<a, value>>
  /\ UNCHANGED <<model, requests, promises>>

\* onUpdateRequest toggling each class by the other property.
OnUpdateRequestSwapped(a) ==
  /\ areas[a].updatePending
  /\ areas' = [areas EXCEPT
       ![a].classes = toggleClass(toggleClass(@, COLLAPSED_CLASS, areas[a].fixedHeight),
                                  FIXED_HEIGHT_CLASS, areas[a].collapsed),
       ![a].updatePending = FALSE]
  /\ lastOp' = "update-request"
  /\ UNCHANGED widgetVars
  /\ lastMsg' = a
  /\ calls' = <<>>
  /\ UNCHANGED <<model, requests, promises>>

\* OutputArea.onUpdateRequest of area a: the posted update-request arrives.
OnUpdateRequest(a) ==
  /\ areas[a].updatePending
  /\ areas' = [areas EXCEPT
       ![a].classes = toggleClass(toggleClass(@, COLLAPSED_CLASS, areas[a].collapsed),
                                  FIXED_HEIGHT_CLASS, areas[a].fixedHeight),
       ![a].updatePending = FALSE]
  /\ lastOp' = "update-request"
  /\ UNCHANGED widgetVars
  /\ lastMsg' = a
  /\ calls' = <<>>
  /\ UNCHANGED <<model, requests, promises>>

\* ------------------------------------------------------- the gutter's events
\* Gutter.onAfterAttach: the mousedown listener goes on the node.
GutterAfterAttach ==
  /\ ~gutter.attached
  /\ ~gutter.isDisposed
  /\ gutter' = [gutter EXCEPT !.attached = TRUE]
  /\ lastOp' = "gutter-after-attach"
  /\ lastMsg' = None
  /\ calls' = <<>>
  /\ UNCHANGED <<areaVars, pointer, stdin, made>>

\* Gutter.onBeforeDetach: the mousedown listener leaves the node.
GutterBeforeDetach ==
  /\ gutter.attached
  /\ gutter' = [gutter EXCEPT !.attached = FALSE]
  /\ lastOp' = "gutter-before-detach"
  /\ lastMsg' = None
  /\ calls' = <<>>
  /\ UNCHANGED <<areaVars, pointer, stdin, made>>

\* Gutter.dispose: _dragData and _drag become null and Widget.dispose
\* detaches the gutter; the document listeners are not touched.
GutterDispose ==
  /\ ~gutter.isDisposed
  /\ gutter' = [gutter EXCEPT !.hasData = FALSE, !.drag = FALSE, !.attached = FALSE,
                              !.isDisposed = TRUE]
  /\ lastOp' = "gutter-dispose"
  /\ lastMsg' = None
  /\ calls' = <<>>
  /\ UNCHANGED <<areaVars, pointer, stdin, made>>

\* A button goes down at (x, y).  handleEvent runs _evtMousedown when the
\* pointer is over the attached gutter; a running Drag stops the event at
\* the document before it reaches the node.
MouseDown(button, x, y, target) ==
  /\ button \notin pointer.buttons
  /\ LET event == MouseEvent("mousedown", button, x, y, target)
         delivered == target = "gutter" /\ gutter.attached /\ gutter.running = 0
     IN  /\ gutter' = IF delivered THEN _evtMousedown(gutter, event) ELSE gutter
         /\ pointer' = IF button = 0
                       THEN [buttons |-> pointer.buttons \cup {0}, onGutter |-> delivered,
                             x |-> IF delivered THEN x ELSE 0,
                             y |-> IF delivered THEN y ELSE 0]
                       ELSE [pointer EXCEPT !.buttons = @ \cup {button}]
         /\ lastMsg' = event
  /\ lastOp' = "mousedown"
  /\ calls' = <<>>
  /\ UNCHANGED <<areaVars, stdin, made>>

\* A held button is released while no Drag runs the left button.
\* handleEvent runs _evtMouseup when the document listeners are installed.
MouseUp(button, x, y) ==
  /\ button \in pointer.buttons
  /\ ~(button = 0 /\ gutter.running > 0)
  /\ LET event == MouseEvent("mouseup", button, x, y, "document")
     IN  /\ gutter' = IF gutter.listening THEN _evtMouseup(gutter, event) ELSE gutter
         /\ lastMsg' = event
  /\ pointer' = IF button = 0
                THEN [buttons |-> pointer.buttons \ {0}, onGutter |-> FALSE,
                      x |-> 0, y |-> 0]
                ELSE [pointer EXCEPT !.buttons = @ \ {button}]
  /\ lastOp' = "mouseup"
  /\ calls' = <<>>
  /\ UNCHANGED <<areaVars, stdin, made>>

\* The pointer moves to (x, y).  handleEvent runs _evtMousemove when the
\* document listeners are installed.
MouseMove(x, y) ==
  /\ LET event == MouseEvent("mousemove", 0, x, y, "document")
     IN  /\ gutter' = IF gutter.listening THEN _evtMousemove(gutter, event) ELSE gutter
         /\ lastMsg' = event
  /\ lastOp' = "mousemove"
  /\ calls' = <<>>
  /\ UNCHANGED <<areaVars, pointer, stdin, made>>

\* The running drag ends, by the release of the left button (a drop) or by
\* Escape, and the promise of drag.start() resolves.  A mouseup listener the
\* gutter still had on the document would see the release first.
DragResolved(release) ==
  /\ gutter.running > 0
  /\ release => 0 \in pointer.buttons
  /\ LET event == MouseEvent("mouseup", 0, pointer.x, pointer.y, "document")
     IN  gutter' = dragResolved(IF release /\ gutter.listening
                                THEN _evtMouseup(gutter, event) ELSE gutter)
  /\ pointer' = IF release
                THEN [buttons |-> pointer.buttons \ {0}, onGutter |-> FALSE,
                      x |-> 0, y |-> 0]
                ELSE pointer
  /\ lastOp' = "drag-resolved"
  /\ lastMsg' = release
  /\ calls' = <<>>
  /\ UNCHANGED <<areaVars, stdin, made>>

\* ------------------------------------------------- the stdin widget's events
\* ContentFactory.createStdin(options): a new Stdin widget.
CreateStdin(options) ==
  /\ ~stdin.created
  /\ stdin' = Stdin(options)
  /\ lastOp' = "createStdin"
  /\ lastMsg' = options
  /\ calls' = <<>>
  /\ UNCHANGED <<areaVars, gutter, pointer, made>>

\* Stdin.onAfterAttach: the keydown listener goes on the input and an
\* update request is posted.
StdinAfterAttach ==
  /\ stdin.created
  /\ ~stdin.attached
  /\ stdin' = [stdin EXCEPT !.attached = TRUE, !.listening = TRUE,
                            !.updatePending = TRUE]
  /\ lastOp' = "stdin-after-attach"
  /\ lastMsg' = None
  /\ calls' = <<UpdateCall>>
  /\ UNCHANGED <<areaVars, gutter, pointer, made>>

\* Stdin.onUpdateRequest: the input is focused, which has an effect while
\* it is part of the attached node.
StdinUpdateRequest ==
  /\ stdin.updatePending
  /\ stdin' = [stdin EXCEPT !.updatePending = FALSE,
                            !.focused = stdin.attached /\ stdin.inputInNode]
  /\ lastOp' = "stdin-update-request"
  /\ lastMsg' = None
  /\ calls' = <<>>
  /\ UNCHANGED <<areaVars, gutter, pointer, made>>

\* Stdin.onBeforeDetach: the keydown listener leaves the input and the
\* widget leaves the document.
StdinBeforeDetach ==
  /\ stdin.attached
  /\ stdin' = [stdin EXCEPT !.attached = FALSE, !.listening = FALSE,
                            !.focused = FALSE]
  /\ lastOp' = "stdin-before-detach"
  /\ lastMsg' = None
  /\ calls' = <<>>
  /\ UNCHANGED <<areaVars, gutter, pointer, made>>

\* The user presses a key in the input element: the event reaches the
\* listener while the input is part of the attached node; handleEvent
\* runs, and then the browser appends a character key to the value.
StdinKeydown(key) ==
  /\ stdin.listening
  /\ stdin.attached
  /\ stdin.inputInNode
  /\ LET event == KeyEvent(key)
         s == handleEvent(stdin, event)
     IN  /\ stdin' = IF key = "Enter" \/ ~s.inputInNode THEN s
                     ELSE [s EXCEPT !.value = Append(@, key)]
         /\ lastMsg' = event
  /\ lastOp' = "keydown"
  /\ calls' = <<>>
  /\ UNCHANGED <<areaVars, gutter, pointer, made>>

\* ---------------------------------------------------- the factory, called alone
\* ContentFactory.createOutput(options) with a fresh gutter.
CreateOutput(o) ==
  /\ LET w == createOutput(o)
     IN  made' = [output |-> o, rendered |-> w.rendered, classes |-> w.classes,
                  gutterText |-> w.gutterText]
  /\ lastOp' = "createOutput"
  /\ lastMsg' = o
  /\ calls' = <<>>
  /\ UNCHANGED <<areaVars, gutter, pointer, stdin>>

\* -------------------------------------------------------------- the inputs
Codes == {"a = 1"}

StreamOut == Output(None, "stdout", NullCount, "text/plain", {})
ResultUnknown == Output(None, None, 1, UnknownData, {})
Display == Output(None, None, NullCount, "text/html", {"isolated"})
ErrorContent == Output(None, None, NullCount, "text/plain", {})

ClearOutputMsgs ==
  {IOPubMsg("clear_output", NoOutput, FALSE), IOPubMsg("clear_output", NoOutput, TRUE)}
StatusMsg == IOPubMsg("status", NoOutput, FALSE)

\* The iopub messages of the specification of overlapping requests.
IOPubMsgs ==
  {IOPubMsg("stream", StreamOut, FALSE), IOPubMsg("display_data", Display, FALSE),
   StatusMsg} \cup ClearOutputMsgs

\* The iopub messages of every type the handler tells apart, one of them
\* with data no renderer handles.
AllIOPubMsgs ==
  { IOPubMsg("stream", StreamOut, FALSE),
    IOPubMsg("execute_result", ResultUnknown, FALSE),
    IOPubMsg("display_data", Display, FALSE),
    IOPubMsg("error", ErrorContent, FALSE),
    StatusMsg } \cup ClearOutputMsgs

\* The iopub messages of a request that prints and ends.
FewIOPubMsgs == {IOPubMsg("stream", StreamOut, FALSE), StatusMsg}

NoPayload == <<>>
PagePayload ==
  <<PayloadEntry("set_next_input", "text/plain"),
    PayloadEntry("page", "text/html"), PayloadEntry("page", "text/plain")>>

\* The replies to request r: without a payload, and with a paged one.
ReplyMsgs(r) == {ReplyMsg(r, FALSE, NoPayload), ReplyMsg(r, TRUE, PagePayload)}

InputRequest == StdinMsg("input_request", "Name: ", FALSE)
PasswordRequest == StdinMsg("input_request", "Password: ", TRUE)
StdinMsgs == {InputRequest, PasswordRequest, StdinMsg("input_reply", None, FALSE)}

\* Whether every area has room for one more child.
Room(W) == \A i \in DOMAIN areas : Len(areas[i].widgets) < W

\* The steps of the event loop, for the messages IOs, Rs and Ss the kernel
\* sends on the iopub, shell and stdin channels, at most W children in an
\* area and at most R requests.
Step(IOs, Ss, W, R) ==
  \/ \E a \in DOMAIN areas, code \in Codes :
       Len(requests) < R /\ Execute(a, code)
  \/ \E r \in DOMAIN requests, msg \in IOs :
       (msg.msg_type \in OutputTypes => Room(W)) /\ OnIOPub(r, msg)
  \/ \E r \in DOMAIN requests : \E msg \in ReplyMsgs(r) :
       Room(W) /\ OnReply(r, msg)
  \/ \E r \in DOMAIN requests, msg \in Ss :
       Room(W) /\ OnStdin(r, msg)
  \/ \E a \in DOMAIN areas : MinHeightTimeout(a)

Next == Step(IOPubMsgs, {InputRequest}, MaxWidgets, MaxRequests)

Spec == Init /\ [][Next]_vars

\* Overlapping requests that print, ask for input and are answered.
NextReply == Step(FewIOPubMsgs, StdinMsgs, FewWidgets, MaxRequests)

SpecReply == Init /\ [][NextReply]_vars

\* One request publishing messages of every type.
NextIOPub == Step(AllIOPubMsgs, {InputRequest}, FewWidgets, OneRequest)

SpecIOPub == Init /\ [][NextIOPub]_vars

\* A request and mirrors of its output area.
NextMirror ==
  \/ Step(IOPubMsgs, {InputRequest}, FewWidgets, OneRequest)
  \/ \E a \in DOMAIN areas : Len(areas) < MaxAreas /\ Mirror(a)

SpecMirror == Init /\ [][NextMirror]_vars

\* Assignments to collapsed and fixedHeight on an area and its mirrors.
NextProps ==
  \/ \E a \in DOMAIN areas : Len(areas) < MaxAreas /\ Mirror(a)
  \/ \E a \in DOMAIN areas, value \in BOOLEAN : SetCollapsed(a, value)
  \/ \E a \in DOMAIN areas, value \in BOOLEAN : SetFixedHeight(a, value)
  \/ \E a \in DOMAIN areas : OnUpdateRequest(a)

SpecProps == Init /\ [][NextProps]_vars


\* The replies in every shape of payload: absent, empty, without a page
\* entry, with one, and with several.
AllReplyMsgs(r) ==
  {ReplyMsg(r, FALSE, NoPayload), ReplyMsg(r, TRUE, NoPayload),
   ReplyMsg(r, TRUE, <<PayloadEntry("set_next_input", "text/plain")>>),
   ReplyMsg(r, TRUE, <<PayloadEntry("page", "text/html")>>),
   ReplyMsg(r, TRUE, PagePayload),
   ReplyMsg(r, TRUE, <<PayloadEntry("page", "text/plain"),
                       PayloadEntry("edit", "text/plain"),
                       PayloadEntry("page", "text/html")>>)}

NextPayload ==
  \/ \E a \in DOMAIN areas, code \in Codes :
       Len(requests) < MaxRequests /\ Execute(a, code)
  \/ \E r \in DOMAIN requests, msg \in FewIOPubMsgs :
       (msg.msg_type \in OutputTypes => Room(FewWidgets)) /\ OnIOPub(r, msg)
  \/ \E r \in DOMAIN requests : \E msg \in AllReplyMsgs(r) :
       Room(FewWidgets) /\ OnReply(r, msg)
  \/ \E a \in DOMAIN areas : MinHeightTimeout(a)

SpecPayload == Init /\ [][NextPayload]_vars

\* The factory alone, given every output of the four nbformat types.
FactoryOutputs ==
  { Output(type, name, count, data, {}) :
      type \in OutputTypes, name \in {None, "stdout", "stderr", "stdlog"},
      count \in {NullCount, 0, 1, 2},
      data \in RenderableData \cup {UnknownData} }

NextFactory == \E o \in FactoryOutputs : CreateOutput(o)

SpecFactory == Init /\ [][NextFactory]_vars

\* The stdin widget alone: made for a plain or a password request,
\* attached, typed into and detached.
StdinOptions ==
  { [prompt |-> InputRequest.prompt, password |-> InputRequest.password],
    [prompt |-> PasswordRequest.prompt, password |-> PasswordRequest.password] }
Keys == {"Enter", "a", "b"}

NextStdin ==
  \/ \E options \in StdinOptions : CreateStdin(options)
  \/ StdinAfterAttach
  \/ StdinUpdateRequest
  \/ StdinBeforeDetach
  \/ \E key \in Keys :
       (key # "Enter" => Len(stdin.value) < MaxInput) /\ StdinKeydown(key)

SpecStdin == Init /\ [][NextStdin]_vars

\* The min-height timer: requests that display and clear, the timer and
\* dispose().  A disposed area is not asked to execute.  The timer of
\* setTimeout fires when nothing cancels it.
TimerIOPubMsgs ==
  {IOPubMsg("display_data", Display, FALSE), IOPubMsg("clear_output", NoOutput, FALSE),
   StatusMsg}

NextTimer ==
  \/ \E a \in DOMAIN areas, code \in Codes :
       Len(requests) < MaxRequests /\ ~areas[a].isDisposed /\ Execute(a, code)
  \/ \E r \in DOMAIN requests, msg \in TimerIOPubMsgs :
       /\ msg.msg_type \in OutputTypes =>
            Room(FewWidgets) /\ Len(model.list) < FewWidgets
       /\ OnIOPub(r, msg)
  \/ \E a \in DOMAIN areas : MinHeightTimeout(a)
  \/ \E a \in DOMAIN areas : Dispose(a)

SpecTimer == Init /\ [][NextTimer]_vars /\ WF_vars(MinHeightTimeout(1))

\* The gutter alone: attach, detach, dispose and the mouse.
Buttons == {0, 2}
Coords == {0, 4, 5}
Targets == {"gutter", "elsewhere"}

NextGutter ==
  \/ GutterAfterAttach
  \/ GutterBeforeDetach
  \/ GutterDispose
  \/ \E button \in Buttons, x \in Coords, y \in Coords, target \in Targets :
       MouseDown(button, x, y, target)
  \/ \E button \in Buttons, x \in Coords, y \in Coords : MouseUp(button, x, y)
  \/ \E x \in Coords, y \in Coords : gutter.started < MaxDrags /\ MouseMove(x, y)
  \/ \E release \in BOOLEAN : DragResolved(release)

SpecGutter == Init /\ [][NextGutter]_vars

\* ------------------------------------------------------------- properties
isOutputPanel(w) == ~hasClass(w, STDIN_CLASS)

\* The children of an area that are not stdin panels, in layout order.
OutputChildren(a) == SelectSeq(areas[a].widgets, isOutputPanel)

\* The position in ws, from p on, of the k-th child that is not a stdin
\* panel (k counted from 0), or 0 when there is none.
RECURSIVE NthOutput(_, _, _)
NthOutput(ws, p, k) ==
  IF p > Len(ws) THEN 0
  ELSE IF isOutputPanel(ws[p])
       THEN IF k = 0 THEN p ELSE NthOutput(ws, p + 1, k - 1)
       ELSE NthOutput(ws, p + 1, k)

\* The last handler called clear() and nothing added a child after it.
ClearReturned ==
  \/ lastOp = "execute"
  \/ lastOp = "iopub" /\ lastMsg.msg_type = "clear_output" /\ ~lastMsg.wait

\* C1: when clear() returns the output area has no children, whatever
\* number of children it held before the call.
C1_ClearRemovesAllChildren ==
  ClearReturned => \A a \in DOMAIN areas : Len(areas[a].widgets) = 0

\* The step is a model.add that the model reported as a 'set' of its last
\* output: the list kept its length.
SetReported ==
  /\ lastOp' = "iopub"
  /\ lastMsg'.msg_type \in OutputTypes
  /\ ~model.clearNext
  /\ Len(model.list) > 0
  /\ Len(model'.list) = Len(model.list)

\* C2: a 'set' at output index k disposes and replaces the panel of the
\* k-th output, stdin panels skipped wherever they sit; the replacement
\* takes its position, no stdin panel is disposed and the number of children
\* is unchanged.
C2_SetReplacesKthOutput ==
  [][SetReported =>
       \A a \in DOMAIN areas :
         LET ws == areas[a].widgets
             k == Len(model.list) - 1
             p == NthOutput(ws, 1, k)
         IN  p > 0 =>
               areas'[a].widgets = [ws EXCEPT ![p] = OutputPanel(model'.list[k + 1])]]_vars

\* C3: over an empty model, after any model changes and input requests the
\* children that are not stdin panels are as many as the model's outputs and
\* the i-th of them renders the i-th output.
C3_OutputChildrenMatchModel ==
  LET outs == OutputChildren(1)
  IN  /\ Len(outs) = Len(model.list)
      /\ \A i \in DOMAIN outs : outs[i].output = model.list[i]

\* C5: at the moment execute() calls kernel.requestExecute the model has no
\* outputs and the output area has no children.
C5_EmptyAtRequest ==
  lastOp = "execute" =>
    \A i \in DOMAIN calls :
      calls[i].op = "kernel.requestExecute" =>
        calls[i].nOutputs = 0 /\ calls[i].nChildren = 0

\* Whether the payload of a reply has an entry whose source is 'page', and
\* the first such entry.
HasPage(msg) ==
  msg.hasPayload /\ \E i \in DOMAIN msg.payload : msg.payload[i].source = "page"
FirstPage(msg) ==
  msg.payload[CHOOSE i \in DOMAIN msg.payload :
                /\ msg.payload[i].source = "page"
                /\ \A j \in 1..(i - 1) : msg.payload[j].source # "page"]

OutputOf(msg) == [msg.content EXCEPT !.output_type = msg.msg_type]

\* C6: an iopub message of type execute_result, display_data, stream or
\* error causes exactly one model.add of its content with output_type set
\* to the message type; a clear_output causes exactly one model.clear with
\* the message's wait flag; a message of any other type leaves the model and
\* the children unchanged.
C6_IOPubMapsToModelCalls ==
  [][lastOp' = "iopub" =>
       CASE lastMsg'.msg_type \in OutputTypes ->
              calls' = <<AddCall(OutputOf(lastMsg'))>>
         [] lastMsg'.msg_type = "clear_output" ->
              calls' = <<ClearCall(lastMsg'.wait)>>
         [] OTHER ->
              calls' = <<>> /\ model' = model /\ areas' = areas]_vars

\* An error message arrived after another output and the model holds both.
C6_Witness ==
  /\ lastOp = "iopub"
  /\ lastMsg.msg_type = "error"
  /\ Len(model.list) = 2
  /\ model.list[2].output_type = "error"
  /\ calls = <<AddCall(model.list[2])>>

TypeClasses == {EXECUTE_CLASS, DISPLAY_CLASS, STDOUT_CLASS, STDERR_CLASS, ERROR_CLASS}

\* The step pushes one output on the model.
AddReported ==
  /\ lastOp' = "iopub"
  /\ lastMsg'.msg_type \in OutputTypes
  /\ ~model.clearNext
  /\ Len(model'.list) = Len(model.list) + 1

\* C7: an output no renderer handles gets an empty placeholder: no type
\* class, the gutter text unset, and exactly one child panel added for it;
\* outputs after it are still given their one panel.
C7_PlaceholderForUnknownMime ==
  [][AddReported =>
       \A a \in DOMAIN areas :
         LET ws == areas[a].widgets
             ws2 == areas'[a].widgets
             o == OutputOf(lastMsg')
         IN  /\ Len(ws2) = Len(ws) + 1
             /\ SubSeq(ws2, 1, Len(ws)) = ws
             /\ ws2[Len(ws2)].output = o
             /\ ws2[Len(ws2)].rendered = render(o)
             /\ ~areas'[a].threw
             /\ ~render(o) =>
                  /\ ws2[Len(ws2)].contentClasses \cap TypeClasses = {}
                  /\ ws2[Len(ws2)].gutterText = NoText]_vars

\* A placeholder is followed by a rendered output.
C7_Witness ==
  /\ lastOp = "iopub"
  /\ Len(areas[1].widgets) = 2
  /\ ~areas[1].widgets[1].rendered
  /\ areas[1].widgets[1].output.output_type = "execute_result"
  /\ areas[1].widgets[2].rendered

\* C8: an input request on the stdin channel appends exactly one stdin panel
\* (a gutter and a stdin widget of the request's prompt and password flag)
\* at the end of the layout and leaves the model and the other children as
\* they were; another stdin message changes nothing.
C8_InputRequestAppendsStdinPanel ==
  [][lastOp' = "stdin" =>
       /\ model' = model
       /\ IF isInputRequestMsg(lastMsg')
          THEN \E a \in DOMAIN areas :
                 LET ws2 == areas'[a].widgets
                 IN  /\ Len(ws2) = Len(areas[a].widgets) + 1
                     /\ areas' = [areas EXCEPT ![a].widgets = Append(@, ws2[Len(ws2)])]
                     /\ hasClass(ws2[Len(ws2)], STDIN_CLASS)
                     /\ ws2[Len(ws2)].gutterChild
                     /\ ws2[Len(ws2)].prompt = lastMsg'.prompt
                     /\ ws2[Len(ws2)].password = lastMsg'.password
          ELSE areas' = areas]_vars

\* A password request arrived after an output: its panel is the last child.
C8_Witness ==
  /\ lastOp = "stdin"
  /\ lastMsg = PasswordRequest
  /\ Len(areas[1].widgets) = 2
  /\ isOutputPanel(areas[1].widgets[1])
  /\ areas[1].widgets[2].password
  /\ Len(model.list) = 1

\* C9: the output children of a mirror correspond one-to-one, in order,
\* with the outputs of the model, from mirror() on, and handling the model's
\* changes never addresses a child that does not exist.
C9_MirrorMatchesModel ==
  \A a \in DOMAIN areas :
    a > 1 =>
      LET outs == OutputChildren(a)
      IN  /\ Len(outs) = Len(model.list)
          /\ \A i \in DOMAIN outs : outs[i].output = model.list[i]
          /\ ~areas[a].threw

\* The classes of area a show its properties.
ClassesShowProps(a) ==
  /\ COLLAPSED_CLASS \in a.classes <=> a.collapsed
  /\ FIXED_HEIGHT_CLASS \in a.classes <=> a.fixedHeight

\* C10: whenever no update request is pending the area carries the collapsed
\* class iff collapsed and the fixed-height class iff fixedHeight; assigning
\* a property its current value requests no update and changes nothing.
C10_ClassesFollowProperties ==
  /\ \A a \in DOMAIN areas : ~areas[a].updatePending => ClassesShowProps(areas[a])
  /\ [][/\ \A a \in DOMAIN areas' :
             ~areas'[a].updatePending => ClassesShowProps(areas'[a])
        /\ lastOp' = "collapsed" =>
             IF areas[lastMsg'[1]].collapsed = lastMsg'[2]
             THEN areas' = areas /\ calls' = <<>>
             ELSE /\ calls' = <<UpdateCall>>
                  /\ areas'[lastMsg'[1]].updatePending
                  /\ areas'[lastMsg'[1]].collapsed = lastMsg'[2]
        /\ lastOp' = "fixedHeight" =>
             IF areas[lastMsg'[1]].fixedHeight = lastMsg'[2]
             THEN areas' = areas /\ calls' = <<>>
             ELSE /\ calls' = <<UpdateCall>>
                  /\ areas'[lastMsg'[1]].updatePending
                  /\ areas'[lastMsg'[1]].fixedHeight = lastMsg'[2]]_vars

\* collapsed was assigned TRUE again on a collapsed area that shows it, with
\* no update pending.
C10_Witness ==
  /\ lastOp = "collapsed"
  /\ lastMsg = <<1, TRUE>>
  /\ calls = <<>>
  /\ areas[1].collapsed
  /\ ~areas[1].updatePending
  /\ COLLAPSED_CLASS \in areas[1].classes
  /\ FIXED_HEIGHT_CLASS \in areas[1].classes

\* C11: a gutter starts a drag only on a mousemove that follows a left-button
\* mousedown on the gutter, comes before the mouseup ending that press, and
\* lies at least 5 pixels from the press position in x or in y; a closer
\* move, or a move after the release, starts none.
C11_DragOnlyPastThreshold ==
  [][gutter'.started > gutter.started =>
       /\ lastOp' = "mousemove"
       /\ 0 \in pointer.buttons
       /\ pointer.onGutter
       /\ \/ abs(lastMsg'.clientX - pointer.x) >= 5
          \/ abs(lastMsg'.clientY - pointer.y) >= 5]_vars

\* A first drag begun by a move that is far from the press in y only.
C11_Witness ==
  /\ lastOp = "mousemove"
  /\ gutter.started = 1
  /\ gutter.running = 1
  /\ pointer.onGutter
  /\ abs(lastMsg.clientX - pointer.x) < 5
  /\ abs(lastMsg.clientY - pointer.y) >= 5

\* C12: on an execute reply whose payload has an entry with source 'page',
\* exactly one display_data output is added to the model, with a copy of the
\* data of the first such entry and empty metadata, however many page
\* entries there are; on a reply whose payload is absent, empty or without a
\* page entry the model, and so the area, is left as it was.
C12_ReplyAddsFirstPage ==
  [][lastOp' = "reply" =>
       IF HasPage(lastMsg')
       THEN LET output == Output("display_data", None, NullCount,
                                 FirstPage(lastMsg').data, {})
                base == IF model.clearNext THEN <<>> ELSE model.list
            IN  /\ model'.list = Append(base, output)
                /\ Len(SelectSeq(calls', LAMBDA c : c.op = "model.add")) = 1
                /\ calls'[1] = AddCall(output)
       ELSE /\ model' = model
            /\ areas' = areas
            /\ calls' = <<ResolveCall(lastMsg'.parent)>>]_vars

\* A reply whose payload holds two page entries after another entry has
\* been handled: the model ends with the output of the first page.
C12_Witness ==
  /\ lastOp = "reply"
  /\ lastMsg.hasPayload
  /\ Len(lastMsg.payload) = 3
  /\ lastMsg.payload[1].source = "page"
  /\ lastMsg.payload[3].source = "page"
  /\ Len(model.list) = 2
  /\ model.list[2] = Output("display_data", None, NullCount, "text/plain", {})

\* The step pushes one output on the model, from an iopub message or from
\* the page of a reply, and the model reports it as an 'add'.
OutputAdded ==
  /\ lastOp' \in {"iopub", "reply"}
  /\ ~model.clearNext
  /\ Len(model'.list) = Len(model.list) + 1

\* C13: on a model 'add' event the new output panel goes to the end of the
\* layout, after every existing child, stdin panels included, and every
\* existing child keeps its position; so an output added after an input
\* request is placed after that stdin panel.
C13_AddAppendsAfterAllChildren ==
  [][OutputAdded =>
       \A a \in DOMAIN areas :
         LET ws == areas[a].widgets
             ws2 == areas'[a].widgets
         IN  /\ Len(ws2) = Len(ws) + 1
             /\ \A i \in DOMAIN ws : ws2[i] = ws[i]
             /\ hasClass(ws2[Len(ws) + 1], OUTPUT_CLASS)
             /\ ws2[Len(ws) + 1].output = model'.list[Len(model'.list)]
             /\ \A i \in DOMAIN ws2 :
                  hasClass(ws2[i], STDIN_CLASS) => i < Len(ws2)]_vars

\* An output was added after an input request: the stdin panel is first,
\* the output's panel second.
C13_Witness ==
  /\ lastOp \in {"iopub", "reply"}
  /\ Len(model.list) = 1
  /\ Len(areas[1].widgets) = 2
  /\ hasClass(areas[1].widgets[1], STDIN_CLASS)
  /\ hasClass(areas[1].widgets[2], OUTPUT_CLASS)
  /\ areas[1].widgets[2].output = model.list[1]

\* C14: for a rendered output createOutput adds exactly one type class, the
\* one of the output: the execute class for execute_result, with the gutter
\* text 'Out[n]:' where n is the execution count or one space when it is
\* null; the display class for display_data; the stdout class for a stream
\* named stdout and the stderr class for a stream of any other name; the
\* error class for error.  It sets the gutter text for no other type.
C14_TypeClassAndPrompt ==
  (lastOp = "createOutput" /\ made.rendered) =>
    LET o == made.output
        type == o.output_type
    IN  /\ made.classes =
             {CASE type = "execute_result" -> EXECUTE_CLASS
                [] type = "display_data" -> DISPLAY_CLASS
                [] type = "stream" /\ o.name = "stdout" -> STDOUT_CLASS
                [] type = "stream" /\ o.name # "stdout" -> STDERR_CLASS
                [] type = "error" -> ERROR_CLASS}
        /\ type = "execute_result" =>
             /\ Len(made.gutterText) = 3
             /\ made.gutterText[1] = "Out["
             /\ made.gutterText[3] = "]:"
             /\ made.gutterText[2] =
                  IF o.execution_count = NullCount THEN " "
                  ELSE CountText(o.execution_count)
        /\ type # "execute_result" => made.gutterText = NoText

\* A rendered execute_result without an execution count: 'Out[ ]:'.
C14_Witness ==
  /\ lastOp = "createOutput"
  /\ made.rendered
  /\ made.output.output_type = "execute_result"
  /\ made.output.execution_count = NullCount
  /\ made.classes = {EXECUTE_CLASS}
  /\ made.gutterText = <<"Out[", " ", "]:">>

\* C15: a stdin widget answers its input request at most once: the first
\* Enter keydown sends exactly one input reply with the value of the input
\* and replaces the input element by the rendered text; a keydown of another
\* key sends no reply; once the reply is sent, no event delivered to the
\* widget sends a second reply or fails.
C15_StdinRepliesOnce ==
  [][/\ (lastOp' = "keydown" /\ lastMsg'.keyCode = 13 /\ stdin.replies = <<>>) =>
          /\ stdin'.replies = <<stdin.value>>
          /\ ~stdin'.inputInNode
          /\ stdin'.hasRendered
     /\ (lastOp' = "keydown" /\ lastMsg'.keyCode # 13) =>
          stdin'.replies = stdin.replies
     /\ stdin.replies # <<>> =>
          /\ stdin'.replies = stdin.replies
          /\ ~stdin'.threw]_vars

\* The widget answered with the two characters typed, was detached and is
\* attached again.
C15_Witness ==
  /\ lastOp = "stdin-after-attach"
  /\ stdin.replies = << <<"a", "b">> >>
  /\ stdin.hasRendered
  /\ stdin.listening

\* C16: for a password request the rendered text is the mask character once
\* per character of the value, so it depends on the length of the value
\* only, while the reply carries the value itself; for another request the
\* rendered text is the value.
C16_PasswordMaskedByLength ==
  stdin.hasRendered =>
    /\ stdin.replies = <<stdin.value>>
    /\ IF stdin.password
       THEN stdin.rendered = [i \in 1..Len(stdin.value) |-> "*"]
       ELSE stdin.rendered = stdin.value

\* A password of two characters was entered.
C16_Witness ==
  /\ stdin.password
  /\ stdin.hasRendered
  /\ stdin.value = <<"b", "a">>
  /\ stdin.rendered = <<"*", "*">>
  /\ stdin.replies = << <<"b", "a">> >>

\* C17: a gutter has at most one drag in progress: while a drag it started
\* runs, no mousedown, mousemove or mouseup creates a second Drag; once the
\* drag is over the gutter's drag reference is null again, and a new press
\* and move past the threshold starts a new drag.
C17_OneDragAtATime ==
  /\ gutter.running <= 1
  /\ gutter.drag => gutter.running = 1

\* The second drag of the gutter runs, begun after the first was over.
C17_Witness ==
  /\ gutter.started = 2
  /\ gutter.running = 1
  /\ gutter.drag
  /\ lastOp = "mousemove"

\* The step calls clear() on the areas: execute() does, and so does the
\* model when it is cleared at once.
ClearCalled ==
  \/ lastOp' = "execute"
  \/ lastOp' = "iopub" /\ lastMsg'.msg_type = "clear_output" /\ ~lastMsg'.wait

\* C18: at most one min-height reset timer is pending whatever clear() calls
\* were made; unless the area is disposed, a pinned min-height is in the end
\* reset to empty; a timer that fires after disposal leaves the node as it
\* is; and clear() on an area without children pins no min-height and
\* neither starts nor cancels a timer.
C18_MinHeightReset ==
  /\ [](\A a \in DOMAIN areas : areas[a].timers <= 1)
  /\ [][/\ lastOp' = "timeout" =>
             \A a \in DOMAIN areas :
               areas[a].isDisposed => areas'[a].minHeight = areas[a].minHeight
        /\ ClearCalled =>
             \A a \in DOMAIN areas :
               Len(areas[a].widgets) = 0 => areas'[a] = areas[a]]_vars
  /\ (areas[1].minHeight # None /\ ~areas[1].isDisposed)
       ~> (areas[1].minHeight = None \/ areas[1].isDisposed)

\* The timer has fired and reset the min-height; the area holds what was
\* displayed since the clear().
C18_Witness ==
  /\ lastOp = "timeout"
  /\ ~areas[1].isDisposed
  /\ areas[1].minHeightTimeout
  /\ areas[1].timers = 0
  /\ areas[1].minHeight = None
  /\ Len(areas[1].widgets) = 1

\* C19: the gutter made for a model output is a child of that output's
\* panel, as the gutter of a stdin panel is a child of the stdin panel: every
\* child panel of the output area contains its gutter, so that the gutter's
\* parent's parent is the output area, its prompt text is displayed and a
\* drag from it yields mirror() of that area.
C19_EveryPanelHoldsItsGutter ==
  \A a \in DOMAIN areas :
    \A i \in DOMAIN areas[a].widgets : areas[a].widgets[i].gutterChild

\* The step hands a message of an earlier request to its handler: the area
\* of the request has been given a later execute() since.
StaleDelivery ==
  \E r \in DOMAIN requests :
    /\ \E r2 \in DOMAIN requests : r2 > r /\ requests[r2].area = requests[r].area
    /\ \/ \E msg \in IOPubMsgs : OnIOPub(r, msg)
       \/ \E msg \in ReplyMsgs(r) : OnReply(r, msg)
       \/ OnStdin(r, InputRequest)

\* C20: when execute() is called again on an output area before the earlier
\* request has finished, the model holds outputs of the latest request only:
\* an iopub message, a stdin request or the reply payload of an earlier
\* request adds no output to the model and no child to the area after the
\* later execute() has cleared them.
C20_EarlierRequestAddsNothing ==
  [][StaleDelivery =>
       /\ Len(model'.list) <= Len(model.list)
       /\ \A a \in DOMAIN areas :
            Len(areas'[a].widgets) <= Len(areas[a].widgets)]_vars

====
